---- MODULE Spec2Model ----
(***************************************************************************)
(* A model of src/tokenizer.cpp: the character classifier get_input, the   *)
(* transition matrix states, and the driver tokenize, called repeatedly on *)
(* one TokenResult with consecutive chunks of an upstream character        *)
(* sequence.  Characters are code points as get_input receives them.       *)
(***************************************************************************)
EXTENDS Integers, Sequences, FiniteSets, TLC

(***************************************************************************)
(* Bounds of the model.                                                    *)
(***************************************************************************)
\* longest upstream sequence enumerated exhaustively over Alphabet
MaxLen == 3

\* the characters the exhaustive inputs are built from, one or more of each
\* input class: NUL, a control character, LF, CR, space, double quote,
\* single quote, '*', '+', '.', '1', ':', backslash, 'a'
Alphabet == {0, 1, 10, 13, 32, 34, 39, 42, 43, 46, 49, 58, 92, 97}

(***************************************************************************)
(* enum TokenType                                                          *)
(***************************************************************************)
TOKEN_TYPE_NONE == 0
TOKEN_TYPE_INT == 1
TOKEN_TYPE_REAL == 2
TOKEN_TYPE_STRING == 3
TOKEN_TYPE_ID == 4
TOKEN_TYPE_DEBUG_COMMAND == 5

(***************************************************************************)
(* enum TokenState                                                         *)
(***************************************************************************)
TOKEN_STATE_ERROR == 0
TOKEN_STATE_NONE == 1
TOKEN_STATE_SIGN == 2
TOKEN_STATE_INT == 3
TOKEN_STATE_DOT == 4
TOKEN_STATE_REAL == 5
TOKEN_STATE_SQUOTE_STRING == 6
TOKEN_STATE_DQUOTE_STRING == 7
TOKEN_STATE_ID == 8
TOKEN_STATE_DEBUG == 9
TOKEN_STATE_END == 10
TOKEN_STATE_SIZE == 11

(***************************************************************************)
(* enum TokenInput                                                         *)
(***************************************************************************)
TOKEN_INPUT_EOF == 0
TOKEN_INPUT_WHITESPACE == 1
TOKEN_INPUT_ALPHABET == 2
TOKEN_INPUT_NUMERIC == 3
TOKEN_INPUT_DOT == 4
TOKEN_INPUT_DOUBLEQUOTE == 5
TOKEN_INPUT_SINGLEQUOTE == 6
TOKEN_INPUT_SIGN == 7
TOKEN_INPUT_COLON == 8
TOKEN_INPUT_BACKSLASH == 9
TOKEN_INPUT_IDCHAR == 10
TOKEN_INPUT_OTHER == 11
TOKEN_INPUT_SIZE == 12

\* <stdio.h> EOF, the end-of-input sentinel get_input compares with
EOF == 0 - 1

(***************************************************************************)
(* The transition matrix.  The rows are in the order the initializer lists *)
(* them, and a row is selected by the state's enum value: states[s][c] of  *)
(* the source is states[s + 1][c + 1] here.  The initializer gives ten     *)
(* rows for eleven states; the eleventh row (index TOKEN_STATE_END) is     *)
(* zero-initialized, and zero is TOKEN_STATE_ERROR.                        *)
(***************************************************************************)
RowError ==
    << TOKEN_STATE_ERROR, TOKEN_STATE_ERROR, TOKEN_STATE_ERROR,
       TOKEN_STATE_ERROR, TOKEN_STATE_ERROR, TOKEN_STATE_ERROR,
       TOKEN_STATE_ERROR, TOKEN_STATE_ERROR, TOKEN_STATE_ERROR,
       TOKEN_STATE_ERROR, TOKEN_STATE_ERROR, TOKEN_STATE_ERROR >>

\* RowNone with a slip: a backslash starts an identifier
RowNoneBackslashStartsIdentifier ==
    << TOKEN_STATE_END, \* EOF
       TOKEN_STATE_NONE, \* WHITESPACE
       TOKEN_STATE_ID, \* ALPHABET
       TOKEN_STATE_INT, \* NUMERIC
       TOKEN_STATE_DOT, \* DOT
       TOKEN_STATE_DQUOTE_STRING, \* DOUBLEQUOTE
       TOKEN_STATE_SQUOTE_STRING, \* SINGLEQUOTE
       TOKEN_STATE_SIGN, \* SIGN
       TOKEN_STATE_DEBUG, \* COLON
       TOKEN_STATE_ID, \* BACKSLASH
       TOKEN_STATE_ID, \* IDCHAR
       TOKEN_STATE_ERROR >> \* OTHER

RowNone ==
    << TOKEN_STATE_END,           \* EOF
       TOKEN_STATE_NONE,          \* WHITESPACE
       TOKEN_STATE_ID,            \* ALPHABET
       TOKEN_STATE_INT,           \* NUMERIC
       TOKEN_STATE_DOT,           \* DOT
       TOKEN_STATE_DQUOTE_STRING, \* DOUBLEQUOTE
       TOKEN_STATE_SQUOTE_STRING, \* SINGLEQUOTE
       TOKEN_STATE_SIGN,          \* SIGN
       TOKEN_STATE_DEBUG,         \* COLON
       TOKEN_STATE_ERROR,         \* BACKSLASH
       TOKEN_STATE_ID,            \* IDCHAR
       TOKEN_STATE_ERROR >>       \* OTHER

RowSign ==
    << TOKEN_STATE_END,    \* EOF
       TOKEN_STATE_NONE,   \* WHITESPACE
       TOKEN_STATE_ERROR,  \* ALPHABET
       TOKEN_STATE_INT,    \* NUMERIC
       TOKEN_STATE_DOT,    \* DOT
       TOKEN_STATE_ERROR,  \* DOUBLEQUOTE
       TOKEN_STATE_ERROR,  \* SINGLEQUOTE
       TOKEN_STATE_ERROR,  \* SIGN
       TOKEN_STATE_ERROR,  \* COLON
       TOKEN_STATE_ERROR,  \* BACKSLASH
       TOKEN_STATE_ERROR,  \* IDCHAR
       TOKEN_STATE_ERROR >> \* OTHER

RowInt ==
    << TOKEN_STATE_END,    \* EOF
       TOKEN_STATE_NONE,   \* WHITESPACE
       TOKEN_STATE_ERROR,  \* ALPHABET
       TOKEN_STATE_INT,    \* NUMERIC
       TOKEN_STATE_DOT,    \* DOT
       TOKEN_STATE_ERROR,  \* DOUBLEQUOTE
       TOKEN_STATE_ERROR,  \* SINGLEQUOTE
       TOKEN_STATE_ERROR,  \* SIGN
       TOKEN_STATE_ERROR,  \* COLON
       TOKEN_STATE_ERROR,  \* BACKSLASH
       TOKEN_STATE_ERROR,  \* IDCHAR
       TOKEN_STATE_ERROR >> \* OTHER

\* RowDot with a slip: a dot with no digit after it is let through at EOF
RowDotAcceptingEndOfInput ==
    << TOKEN_STATE_END, \* EOF
       TOKEN_STATE_ERROR, \* WHITESPACE
       TOKEN_STATE_ERROR, \* ALPHABET
       TOKEN_STATE_REAL, \* NUMERIC
       TOKEN_STATE_ERROR, \* DOT
       TOKEN_STATE_ERROR, \* DOUBLEQUOTE
       TOKEN_STATE_ERROR, \* SINGLEQUOTE
       TOKEN_STATE_ERROR, \* SIGN
       TOKEN_STATE_ERROR, \* COLON
       TOKEN_STATE_ERROR, \* BACKSLASH
       TOKEN_STATE_ERROR, \* IDCHAR
       TOKEN_STATE_ERROR >> \* OTHER

RowDot ==
    << TOKEN_STATE_ERROR,  \* EOF
       TOKEN_STATE_ERROR,  \* WHITESPACE
       TOKEN_STATE_ERROR,  \* ALPHABET
       TOKEN_STATE_REAL,   \* NUMERIC
       TOKEN_STATE_ERROR,  \* DOT
       TOKEN_STATE_ERROR,  \* DOUBLEQUOTE
       TOKEN_STATE_ERROR,  \* SINGLEQUOTE
       TOKEN_STATE_ERROR,  \* SIGN
       TOKEN_STATE_ERROR,  \* COLON
       TOKEN_STATE_ERROR,  \* BACKSLASH
       TOKEN_STATE_ERROR,  \* IDCHAR
       TOKEN_STATE_ERROR >> \* OTHER

\* RowReal with a slip: a second dot stays in the real
RowRealAcceptingSecondDot ==
    << TOKEN_STATE_END, \* EOF
       TOKEN_STATE_NONE, \* WHITESPACE
       TOKEN_STATE_ERROR, \* ALPHABET
       TOKEN_STATE_REAL, \* NUMERIC
       TOKEN_STATE_REAL, \* DOT
       TOKEN_STATE_ERROR, \* DOUBLEQUOTE
       TOKEN_STATE_ERROR, \* SINGLEQUOTE
       TOKEN_STATE_ERROR, \* SIGN
       TOKEN_STATE_ERROR, \* COLON
       TOKEN_STATE_ERROR, \* BACKSLASH
       TOKEN_STATE_ERROR, \* IDCHAR
       TOKEN_STATE_ERROR >> \* OTHER

RowReal ==
    << TOKEN_STATE_END,    \* EOF
       TOKEN_STATE_NONE,   \* WHITESPACE
       TOKEN_STATE_ERROR,  \* ALPHABET
       TOKEN_STATE_REAL,   \* NUMERIC
       TOKEN_STATE_ERROR,  \* DOT
       TOKEN_STATE_ERROR,  \* DOUBLEQUOTE
       TOKEN_STATE_ERROR,  \* SINGLEQUOTE
       TOKEN_STATE_ERROR,  \* SIGN
       TOKEN_STATE_ERROR,  \* COLON
       TOKEN_STATE_ERROR,  \* BACKSLASH
       TOKEN_STATE_ERROR,  \* IDCHAR
       TOKEN_STATE_ERROR >> \* OTHER

\* the seventh row of the initializer, commented TOKEN_STATE_DQUOTE_STRING
RowDquoteString ==
    << TOKEN_STATE_ERROR,         \* EOF
       TOKEN_STATE_DQUOTE_STRING, \* WHITESPACE
       TOKEN_STATE_DQUOTE_STRING, \* ALPHABET
       TOKEN_STATE_DQUOTE_STRING, \* NUMERIC
       TOKEN_STATE_DQUOTE_STRING, \* DOT
       TOKEN_STATE_NONE,          \* DOUBLEQUOTE
       TOKEN_STATE_DQUOTE_STRING, \* SINGLEQUOTE
       TOKEN_STATE_DQUOTE_STRING, \* SIGN
       TOKEN_STATE_DQUOTE_STRING, \* COLON
       TOKEN_STATE_DQUOTE_STRING, \* BACKSLASH
       TOKEN_STATE_DQUOTE_STRING, \* IDCHAR
       TOKEN_STATE_DQUOTE_STRING >> \* OTHER

\* the eighth row of the initializer, commented TOKEN_STATE_SQUOTE_STRING
RowSquoteString ==
    << TOKEN_STATE_ERROR,         \* EOF
       TOKEN_STATE_SQUOTE_STRING, \* WHITESPACE
       TOKEN_STATE_SQUOTE_STRING, \* ALPHABET
       TOKEN_STATE_SQUOTE_STRING, \* NUMERIC
       TOKEN_STATE_SQUOTE_STRING, \* DOT
       TOKEN_STATE_SQUOTE_STRING, \* DOUBLEQUOTE
       TOKEN_STATE_NONE,          \* SINGLEQUOTE
       TOKEN_STATE_SQUOTE_STRING, \* SIGN
       TOKEN_STATE_SQUOTE_STRING, \* COLON
       TOKEN_STATE_SQUOTE_STRING, \* BACKSLASH
       TOKEN_STATE_SQUOTE_STRING, \* IDCHAR
       TOKEN_STATE_SQUOTE_STRING >> \* OTHER

RowId ==
    << TOKEN_STATE_ERROR,  \* EOF
       TOKEN_STATE_NONE,   \* WHITESPACE
       TOKEN_STATE_ID,     \* ALPHABET
       TOKEN_STATE_ID,     \* NUMERIC
       TOKEN_STATE_ERROR,  \* DOT
       TOKEN_STATE_ERROR,  \* DOUBLEQUOTE
       TOKEN_STATE_ERROR,  \* SINGLEQUOTE
       TOKEN_STATE_ERROR,  \* SIGN
       TOKEN_STATE_ERROR,  \* COLON
       TOKEN_STATE_ERROR,  \* BACKSLASH
       TOKEN_STATE_ID,     \* IDCHAR
       TOKEN_STATE_ERROR >> \* OTHER

RowDebug ==
    << TOKEN_STATE_ERROR,  \* EOF
       TOKEN_STATE_NONE,   \* WHITESPACE
       TOKEN_STATE_DEBUG,  \* ALPHABET
       TOKEN_STATE_DEBUG,  \* NUMERIC
       TOKEN_STATE_ERROR,  \* DOT
       TOKEN_STATE_ERROR,  \* DOUBLEQUOTE
       TOKEN_STATE_ERROR,  \* SINGLEQUOTE
       TOKEN_STATE_ERROR,  \* SIGN
       TOKEN_STATE_ERROR,  \* COLON
       TOKEN_STATE_ERROR,  \* BACKSLASH
       TOKEN_STATE_ERROR,  \* IDCHAR
       TOKEN_STATE_ERROR >> \* OTHER

\* the row no initializer is given for: every entry is 0
RowZeroInitialized == [c \in 1..TOKEN_INPUT_SIZE |-> 0]

states ==
    << RowError, RowNone, RowSign, RowInt, RowDot, RowReal,
       RowDquoteString, RowSquoteString, RowId, RowDebug,
       RowZeroInitialized >>

(***************************************************************************)
(* get_input: the input class of one character, in the order of the tests  *)
(* of the source.                                                          *)
(***************************************************************************)
\* get_input with a slip: the visible-character test stops at 0x7E
get_inputAsciiOnly(input) ==
    IF input = EOF THEN TOKEN_INPUT_EOF
    ELSE IF input \in {32, 13, 10, 9} THEN TOKEN_INPUT_WHITESPACE
    ELSE IF input = 46 THEN TOKEN_INPUT_DOT
    ELSE IF input = 0 THEN TOKEN_INPUT_EOF
    ELSE IF input = 58 THEN TOKEN_INPUT_COLON
    ELSE IF input = 92 THEN TOKEN_INPUT_BACKSLASH
    ELSE IF input = 95 THEN TOKEN_INPUT_ALPHABET
    ELSE IF input \in {43, 45} THEN TOKEN_INPUT_SIGN
    ELSE IF input = 34 THEN TOKEN_INPUT_DOUBLEQUOTE
    ELSE IF input = 39 THEN TOKEN_INPUT_SINGLEQUOTE
    ELSE IF input >= 48 /\ input <= 57 THEN TOKEN_INPUT_NUMERIC
    ELSE IF (input >= 97 /\ input <= 122) \/ (input >= 65 /\ input <= 90)
         THEN TOKEN_INPUT_ALPHABET
    ELSE IF input >= 33 /\ input <= 126
         THEN TOKEN_INPUT_IDCHAR
    ELSE TOKEN_INPUT_OTHER

get_input(input) ==
    IF input = EOF THEN TOKEN_INPUT_EOF
    ELSE IF input \in {32, 13, 10, 9} THEN TOKEN_INPUT_WHITESPACE
    ELSE IF input = 46 THEN TOKEN_INPUT_DOT
    ELSE IF input = 0 THEN TOKEN_INPUT_EOF
    ELSE IF input = 58 THEN TOKEN_INPUT_COLON
    ELSE IF input = 92 THEN TOKEN_INPUT_BACKSLASH
    ELSE IF input = 95 THEN TOKEN_INPUT_ALPHABET
    ELSE IF input \in {43, 45} THEN TOKEN_INPUT_SIGN
    ELSE IF input = 34 THEN TOKEN_INPUT_DOUBLEQUOTE
    ELSE IF input = 39 THEN TOKEN_INPUT_SINGLEQUOTE
    ELSE IF input >= 48 /\ input <= 57 THEN TOKEN_INPUT_NUMERIC
    ELSE IF (input >= 97 /\ input <= 122) \/ (input >= 65 /\ input <= 90)
         THEN TOKEN_INPUT_ALPHABET
    ELSE IF (input >= 33 /\ input <= 126) \/ input >= 161
         THEN TOKEN_INPUT_IDCHAR
    ELSE TOKEN_INPUT_OTHER

(***************************************************************************)
(* The upstream character sequences the caller feeds to tokenize.          *)
(***************************************************************************)
RECURSIVE SeqsUpTo(_, _)
SeqsUpTo(S, n) ==
    IF n = 0 THEN {<< >>}
    ELSE LET shorter == SeqsUpTo(S, n - 1)
         IN shorter \cup {Append(s, c) : s \in {t \in shorter : Len(t) = n - 1}, c \in S}

\* the concrete inputs of the documentation, each as its code points
Scenarios ==
    { \* 1 2 + print_stack_top NUL
      << 49, 32, 50, 32, 43, 32, 112, 114, 105, 110, 116, 95, 115, 116, 97,
         99, 107, 95, 116, 111, 112, 0 >>,
      \* -3.14 "hello world" NUL
      << 45, 51, 46, 49, 52, 32, 34, 104, 101, 108, 108, 111, 32, 119, 111,
         114, 108, 100, 34, 0 >>,
      \* :break NUL
      << 58, 98, 114, 101, 97, 107, 0 >>,
      \* 1.2.3 NUL
      << 49, 46, 50, 46, 51, 0 >>,
      \* "hello NUL
      << 34, 104, 101, 108, 108, 111, 0 >>,
      \* 'a"1.:' NUL
      << 39, 97, 34, 49, 46, 58, 39, 0 >>,
      \* -12 LF NUL
      << 45, 49, 50, 10, 0 >>,
      \* 9223372036854775808 NUL, one more than INT64_MAX
      << 57, 50, 50, 51, 51, 55, 50, 48, 51, 54, 56, 53, 52, 55, 55, 53, 56,
         48, 56, 0 >> }

Sources == SeqsUpTo(Alphabet, MaxLen) \cup Scenarios

\* the negative lengths a caller may pass by mistake
NegativeSizes == {0 - 1}

(***************************************************************************)
(* struct TokenError has no initializer and TokenResult's constructor sets *)
(* only the two counters: the fields of result.error hold indeterminate    *)
(* values until tokenize writes them.  Two representatives stand for them. *)
(***************************************************************************)
IndeterminateErrors ==
    { [curr_offset |-> v, line_pos |-> v, col_pos |-> v, curr_guess |-> v,
       curr_input |-> v, curr_input_val |-> v] : v \in {0, 7} }

VARIABLES
    source,   \* the whole character sequence the caller has to feed
    fed,      \* how many characters of source earlier calls were given
    input,    \* tokenize's argument: the chunk of the current call
    size,     \* tokenize's argument: its length
    end,      \* tokenize's argument: whether this is the final chunk
    frame,    \* tokenize's local variables
    result,   \* the TokenResult the calls share
    pc,       \* "idle", "loop" (inside the for loop) or "returned"
    ret       \* the value the last call returned

vars == << source, fed, input, size, end, frame, result, pc, ret >>

\* TokenResult::TokenResult()
TokenResultInit(error) ==
    [characters_processed |-> 0, lines_processed |-> 0, error |-> error,
     buffer |-> << >>, tokens |-> << >>]

\* the locals of tokenize as its declarations leave them; next_state and
\* curr_input are declared inside the loop and have no value before it
FrameInit ==
    [curr_state |-> TOKEN_STATE_NONE, line_ending_check |-> FALSE,
     col_pos |-> 0, sign |-> FALSE, i |-> 0,
     curr_input |-> TOKEN_INPUT_SIZE, next_state |-> TOKEN_STATE_SIZE]

\* the counters tokenize resets on entry
\* ResultOnEntry with a slip: the counters of the previous call are kept
ResultOnEntryKeepingCounters(r) == r

ResultOnEntry(r) ==
    [r EXCEPT !.characters_processed = 0, !.lines_processed = 0]

(***************************************************************************)
(* The line counter of the loop body: the new pending-CR flag, column and  *)
(* line count after character c.                                           *)
(***************************************************************************)
LineCounter(line_ending_check, col_pos, lines_processed, c) ==
    IF c = 10
    THEN [line_ending_check |-> FALSE, lines_processed |-> lines_processed + 1,
          col_pos |-> 0]
    ELSE IF c = 13
    THEN IF line_ending_check
         THEN [line_ending_check |-> TRUE,
               lines_processed |-> lines_processed + 1, col_pos |-> 0]
         ELSE [line_ending_check |-> TRUE, lines_processed |-> lines_processed,
               col_pos |-> col_pos]
    ELSE IF line_ending_check
    THEN [line_ending_check |-> FALSE, lines_processed |-> lines_processed + 1,
          col_pos |-> 0]
    ELSE [line_ending_check |-> FALSE, lines_processed |-> lines_processed,
          col_pos |-> col_pos + 1]

(***************************************************************************)
(* switch (next_state): f and r are the locals and the result after the    *)
(* lookup and the line counter, c is input[i].  The outcome says whether   *)
(* the call returned and with which value; otherwise the loop goes on with *)
(* i + 1.  No case assigns curr_state, pushes to result.tokens or writes   *)
(* result.buffer, and result.error.curr_offset is written nowhere.         *)
(***************************************************************************)
\* CaseError with a slip: the diagnostic is recorded but the loop goes on
CaseErrorNotFatal(f, r, c) ==
    [frame |-> [f EXCEPT !.i = @ + 1],
     result |-> [r EXCEPT !.error.col_pos = f.col_pos,
                          !.error.line_pos = r.lines_processed,
                          !.error.curr_guess = f.curr_state,
                          !.error.curr_input = f.curr_input,
                          !.error.curr_input_val = c],
     returned |-> FALSE, ret |-> 0]

\* case TOKEN_STATE_ERROR
CaseError(f, r, c) ==
    [frame |-> f,
     result |-> [r EXCEPT !.error.col_pos = f.col_pos,
                          !.error.line_pos = r.lines_processed,
                          !.error.curr_guess = f.curr_state,
                          !.error.curr_input = f.curr_input,
                          !.error.curr_input_val = c],
     returned |-> TRUE, ret |-> 1]

\* CaseEnd with a slip: the position is recorded in result.error on End too
CaseEndWritingError(f, r) ==
    [frame |-> f,
     result |-> [r EXCEPT !.error.col_pos = f.col_pos,
                          !.error.line_pos = r.lines_processed],
     returned |-> TRUE, ret |-> 1]

\* case TOKEN_STATE_END
CaseEnd(f, r) ==
    [frame |-> f, result |-> r, returned |-> TRUE, ret |-> 1]

Dispatch(f, r, c) ==
    IF f.next_state = TOKEN_STATE_ERROR
    THEN CaseError(f, r, c)
    ELSE IF f.next_state = TOKEN_STATE_NONE
    THEN \* continue, or the inner switch whose cases are all empty
         [frame |-> [f EXCEPT !.i = @ + 1], result |-> r,
          returned |-> FALSE, ret |-> 0]
    ELSE IF f.next_state = TOKEN_STATE_SIGN
    THEN [frame |-> [f EXCEPT !.sign = TRUE, !.i = @ + 1], result |-> r,
          returned |-> FALSE, ret |-> 0]
    ELSE IF f.next_state \in
              {TOKEN_STATE_INT, TOKEN_STATE_DOT, TOKEN_STATE_REAL,
               TOKEN_STATE_SQUOTE_STRING, TOKEN_STATE_DQUOTE_STRING,
               TOKEN_STATE_ID, TOKEN_STATE_DEBUG}
    THEN [frame |-> [f EXCEPT !.i = @ + 1], result |-> r,
          returned |-> FALSE, ret |-> 0]
    ELSE IF f.next_state = TOKEN_STATE_END
    THEN CaseEnd(f, r)
    ELSE \* default: "Invalid state encountered."
         [frame |-> f, result |-> r, returned |-> TRUE, ret |-> 0 - 1]

\* the lookup states[curr_state][curr_input]
Transition(curr_state, curr_input) == states[curr_state + 1][curr_input + 1]

\* LoopBody with a slip: a pending "\r" not completed by "\n" is taken for a
\* lexical error, so the line counter's flag decides the next state
LoopBodyLineSensitive(f, r, c) ==
    LET curr_input == get_input(c)
        next_state == IF f.line_ending_check /\ c # 10
                      THEN TOKEN_STATE_ERROR
                      ELSE Transition(f.curr_state, curr_input)
        lc == LineCounter(f.line_ending_check, f.col_pos, r.lines_processed, c)
        f1 == [f EXCEPT !.curr_input = curr_input,
                        !.next_state = next_state,
                        !.line_ending_check = lc.line_ending_check,
                        !.col_pos = lc.col_pos]
        r1 == [r EXCEPT !.characters_processed = @ + 1,
                        !.lines_processed = lc.lines_processed]
    IN Dispatch(f1, r1, c)

(***************************************************************************)
(* One iteration of the for loop on character c = input[i].                *)
(***************************************************************************)
LoopBody(f, r, c) ==
    LET curr_input == get_input(c)
        next_state == Transition(f.curr_state, curr_input)
        lc == LineCounter(f.line_ending_check, f.col_pos, r.lines_processed, c)
        f1 == [f EXCEPT !.curr_input = curr_input,
                        !.next_state = next_state,
                        !.line_ending_check = lc.line_ending_check,
                        !.col_pos = lc.col_pos]
        r1 == [r EXCEPT !.characters_processed = @ + 1,
                        !.lines_processed = lc.lines_processed]
    IN Dispatch(f1, r1, c)

\* LoopExit with a slip: a chunk that runs out inside a token emits what
\* there is of the token instead of leaving it for the next call
LoopExitFlushingPartialToken(f, r) ==
    [frame |-> f,
     result |-> IF f.next_state \in
                      {TOKEN_STATE_SIGN, TOKEN_STATE_INT, TOKEN_STATE_DOT,
                       TOKEN_STATE_REAL, TOKEN_STATE_SQUOTE_STRING,
                       TOKEN_STATE_DQUOTE_STRING, TOKEN_STATE_ID,
                       TOKEN_STATE_DEBUG}
                THEN [r EXCEPT !.tokens =
                         Append(@, [type |-> TOKEN_TYPE_NONE, data |-> 0])]
                ELSE r,
     returned |-> TRUE, ret |-> 0]

\* the statement after the loop
LoopExit(f, r) ==
    [frame |-> f, result |-> r, returned |-> TRUE, ret |-> 0]

(***************************************************************************)
(* tokenize as a function: the outcome of one whole call.                  *)
(***************************************************************************)
RECURSIVE RunLoop(_, _, _, _)
RunLoop(f, r, in, sz) ==
    IF f.i < sz
    THEN LET o == LoopBody(f, r, in[f.i + 1])
         IN IF o.returned THEN o ELSE RunLoop(o.frame, o.result, in, sz)
    ELSE LoopExit(f, r)

tokenize(in, sz, e, r) == RunLoop(FrameInit, ResultOnEntry(r), in, sz)

(***************************************************************************)
(* The actions: a call of tokenize is entered, runs its loop one           *)
(* character at a time, and returns.                                       *)
(***************************************************************************)
Init ==
    /\ source \in Sources
    /\ fed = 0
    /\ input = << >>
    /\ size = 0
    /\ end = FALSE
    /\ frame = FrameInit
    /\ result \in {TokenResultInit(e) : e \in IndeterminateErrors}
    /\ pc = "idle"
    /\ ret = 0

\* The caller passes the next n characters of source; it says "final chunk"
\* only with the last ones, and calls again only after a return of 0.
Call ==
    /\ \/ pc = "idle"
       \/ pc = "returned" /\ ret = 0 /\ fed < Len(source)
    /\ \E n \in (IF fed = Len(source) THEN {0} ELSE 1..(Len(source) - fed)),
          e \in BOOLEAN :
          /\ e => fed + n = Len(source)
          /\ input' = SubSeq(source, fed + 1, fed + n)
          /\ size' = n
          /\ end' = e
          /\ fed' = fed + n
    /\ frame' = FrameInit
    /\ result' = ResultOnEntry(result)
    /\ pc' = "loop"
    /\ UNCHANGED << source, ret >>

\* The caller passes a negative length.  Nothing in tokenize looks at the
\* sign of size: the call is entered like any other, and its buffer is
\* never read.
CallWithNegativeSize ==
    /\ \/ pc = "idle"
       \/ pc = "returned" /\ ret = 0
    /\ \E n \in NegativeSizes, e \in BOOLEAN :
          /\ size' = n
          /\ end' = e
    /\ input' = << >>
    /\ frame' = FrameInit
    /\ result' = ResultOnEntry(result)
    /\ pc' = "loop"
    /\ UNCHANGED << source, fed, ret >>

Iterate ==
    /\ pc = "loop"
    /\ frame.i < size
    /\ LET o == LoopBody(frame, result, input[frame.i + 1])
       IN /\ frame' = o.frame
          /\ result' = o.result
          /\ pc' = IF o.returned THEN "returned" ELSE "loop"
          /\ ret' = IF o.returned THEN o.ret ELSE ret
    /\ UNCHANGED << source, fed, input, size, end >>

Exhaust ==
    /\ pc = "loop"
    /\ ~(frame.i < size)
    /\ LET o == LoopExit(frame, result)
       IN /\ frame' = o.frame
          /\ result' = o.result
          /\ pc' = "returned"
          /\ ret' = o.ret
    /\ UNCHANGED << source, fed, input, size, end >>

Next == Call \/ CallWithNegativeSize \/ Iterate \/ Exhaust

Spec == Init /\ [][Next]_vars

(***************************************************************************)
(* The vocabulary of the documented contract: the statuses, the forms of   *)
(* a token, and what a well-formed input is expected to yield.             *)
(***************************************************************************)
\* "By returning 0, we signify that we need more data"
NeedMoreInput == 0
\* "By returning 1, we signify that we are done with the tokenization"
Done == 1

\* the in-progress token states: every state but Start, End and Error
InProgressStates ==
    {TOKEN_STATE_SIGN, TOKEN_STATE_INT, TOKEN_STATE_DOT, TOKEN_STATE_REAL,
     TOKEN_STATE_SQUOTE_STRING, TOKEN_STATE_DQUOTE_STRING, TOKEN_STATE_ID,
     TOKEN_STATE_DEBUG}

Returned == pc = "returned"
\* the current call was given the whole source at once
SingleCall == size = Len(source) /\ fed = Len(source)
\* the call stopped on an Error transition / by reaching End / out of input
StoppedOnError == Returned /\ frame.next_state = TOKEN_STATE_ERROR
StoppedOnEnd == Returned /\ frame.next_state = TOKEN_STATE_END
Exhausted == Returned /\ frame.i = size
\* the last character consumed left the automaton inside a token
MidToken == frame.next_state \in InProgressStates

IsWhitespace(c) == c \in {32, 9, 10, 13}
IsDigit(c) == c \in 48..57
IsSign(c) == c \in {43, 45}
IsQuote(c) == c \in {34, 39}
IsLetter(c) == c = 95 \/ c \in 65..90 \/ c \in 97..122
IsVisibleOther(c) ==
    /\ c \in 33..126
    /\ ~IsDigit(c) /\ ~IsSign(c) /\ ~IsQuote(c) /\ ~IsLetter(c)
    /\ c \notin {46, 58, 92}
IsEndOfInput(c) == c \in {0, EOF}

All(s, P(_)) == \A k \in 1..Len(s) : P(s[k])
Unsigned(run) == IF Len(run) > 0 /\ IsSign(run[1]) THEN Tail(run) ELSE run

IsIntegerRun(run) == Len(Unsigned(run)) >= 1 /\ All(Unsigned(run), IsDigit)
IsRealRun(run) ==
    LET body == Unsigned(run)
    IN /\ Len(body) >= 2
       /\ Cardinality({k \in 1..Len(body) : body[k] = 46}) = 1
       /\ \A k \in 1..Len(body) : body[k] = 46 \/ IsDigit(body[k])
IsIdentifierRun(run) ==
    /\ Len(run) >= 1
    /\ IsLetter(run[1]) \/ IsVisibleOther(run[1])
    /\ \A k \in 1..Len(run) :
          IsLetter(run[k]) \/ IsDigit(run[k]) \/ IsVisibleOther(run[k])
IsDebugRun(run) ==
    /\ Len(run) >= 1
    /\ run[1] = 58
    /\ \A k \in 2..Len(run) : IsLetter(run[k]) \/ IsDigit(run[k])
IsStringRun(run) ==
    /\ Len(run) >= 2
    /\ IsQuote(run[1])
    /\ run[Len(run)] = run[1]
    /\ \A k \in 2..(Len(run) - 1) : run[k] # run[1]

\* the kind of token a run has the form of; TOKEN_TYPE_NONE when it has none
RunKind(run) ==
    IF IsIntegerRun(run) THEN TOKEN_TYPE_INT
    ELSE IF IsRealRun(run) THEN TOKEN_TYPE_REAL
    ELSE IF IsStringRun(run) THEN TOKEN_TYPE_STRING
    ELSE IF IsIdentifierRun(run) THEN TOKEN_TYPE_ID
    ELSE IF IsDebugRun(run) THEN TOKEN_TYPE_DEBUG_COMMAND
    ELSE TOKEN_TYPE_NONE

\* the maximal runs of non-whitespace characters of s, in order
RECURSIVE RunsFrom(_, _, _)
RunsFrom(s, cur, acc) ==
    IF s = << >>
    THEN IF cur = << >> THEN acc ELSE Append(acc, cur)
    ELSE IF IsWhitespace(Head(s))
    THEN RunsFrom(Tail(s), << >>, IF cur = << >> THEN acc ELSE Append(acc, cur))
    ELSE RunsFrom(Tail(s), Append(cur, Head(s)), acc)
Runs(s) == RunsFrom(s, << >>, << >>)

\* s is some text followed by one end-of-input character
EndsWithEndOfInput(s) ==
    /\ Len(s) >= 1
    /\ IsEndOfInput(s[Len(s)])
    /\ \A k \in 1..(Len(s) - 1) : ~IsEndOfInput(s[k])
TextOf(s) == SubSeq(s, 1, Len(s) - 1)

\* a complete input made only of valid tokens separated by whitespace
ValidComplete(s) ==
    /\ EndsWithEndOfInput(s)
    /\ \A k \in 1..Len(Runs(TextOf(s))) :
          RunKind(Runs(TextOf(s))[k]) # TOKEN_TYPE_NONE

ExpectedKinds(s) ==
    [k \in 1..Len(Runs(TextOf(s))) |-> RunKind(Runs(TextOf(s))[k])]
KindsOf(tokens) == [k \in 1..Len(tokens) |-> tokens[k].type]

\* the decimal value of a sequence of digits
RECURSIVE DecimalValue(_)
DecimalValue(digits) ==
    IF digits = << >> THEN 0
    ELSE 10 * DecimalValue(SubSeq(digits, 1, Len(digits) - 1))
         + (digits[Len(digits)] - 48)
SignedValue(run) ==
    IF Len(run) > 0 /\ run[1] = 45
    THEN 0 - DecimalValue(Unsigned(run))
    ELSE DecimalValue(Unsigned(run))

\* 1 2 + print_stack_top
PrintStackTopInput ==
    << 49, 32, 50, 32, 43, 32, 112, 114, 105, 110, 116, 95, 115, 116, 97,
       99, 107, 95, 116, 111, 112, 0 >>
PrintStackTopTokens ==
    << [type |-> TOKEN_TYPE_INT, data |-> 1],
       [type |-> TOKEN_TYPE_INT, data |-> 2],
       [type |-> TOKEN_TYPE_ID, data |-> << 43 >>],
       [type |-> TOKEN_TYPE_ID,
        data |-> << 112, 114, 105, 110, 116, 95, 115, 116, 97, 99, 107, 95,
                    116, 111, 112 >>] >>

(***************************************************************************)
(* C1.  A call on a complete input made only of valid tokens separated by  *)
(* whitespace and ended by end of input leaves in result.tokens exactly    *)
(* one token per whitespace-delimited run, in input order, of the kind the *)
(* run has the form of, and returns Done; "1 2 + print_stack_top" yields   *)
(* Integer(1), Integer(2), Identifier("+"), Identifier("print_stack_top"). *)
(* (The general part is stated for the runs that have one of the five      *)
(* forms; the lone "+" of the example is stated with the example.)         *)
(***************************************************************************)
C1_OneTokenPerRun ==
    (Returned /\ SingleCall) =>
        /\ ValidComplete(source) =>
              /\ KindsOf(result.tokens) = ExpectedKinds(source)
              /\ ret = Done
        /\ source = PrintStackTopInput =>
              /\ result.tokens = PrintStackTopTokens
              /\ ret = Done

(***************************************************************************)
(* C2.  A call on an optional sign followed by one or more digits and then *)
(* one whitespace or end-of-input character yields exactly one Integer     *)
(* token whose value is the signed decimal value of the digits, and        *)
(* characters_processed equals the input length.                           *)
(***************************************************************************)
IsIntegerInput(s) ==
    /\ Len(s) >= 2
    /\ IsWhitespace(s[Len(s)]) \/ IsEndOfInput(s[Len(s)])
    /\ IsIntegerRun(TextOf(s))

C2_IntegerToken ==
    (Returned /\ SingleCall /\ IsIntegerInput(source)) =>
        /\ result.tokens =
              << [type |-> TOKEN_TYPE_INT, data |-> SignedValue(TextOf(source))] >>
        /\ result.characters_processed = Len(source)

(***************************************************************************)
(* C3.  A second "." inside one whitespace-delimited numeric run makes the *)
(* call fail at the second dot: the call stops on the Error transition of  *)
(* that dot and the diagnostic's offset is the dot's; for "1.2.3" the      *)
(* diagnostic's curr_guess is Real.                                        *)
(***************************************************************************)
\* position k holds the second dot of a numeric run that starts the input
IsSecondDot(s, k) ==
    /\ k \in 1..Len(s)
    /\ s[k] = 46
    /\ Cardinality({j \in 1..(k - 1) : s[j] = 46}) = 1
    /\ \E j \in 1..(k - 1) : IsDigit(s[j])
    /\ \A j \in 1..(k - 1) :
          s[j] = 46 \/ IsDigit(s[j]) \/ (j = 1 /\ IsSign(s[j]))
HasSecondDot(s) == \E k \in 1..Len(s) : IsSecondDot(s, k)
SecondDot(s) == CHOOSE k \in 1..Len(s) : IsSecondDot(s, k)

\* 1.2.3
OneTwoThreeInput == << 49, 46, 50, 46, 51, 0 >>

C3_SecondDotFails ==
    (Returned /\ SingleCall /\ HasSecondDot(source)) =>
        /\ StoppedOnError
        /\ frame.i = SecondDot(source) - 1
        /\ result.characters_processed = SecondDot(source)
        /\ result.error.curr_offset = SecondDot(source) - 1
        /\ source = OneTwoThreeInput =>
              result.error.curr_guess = TOKEN_STATE_REAL

(***************************************************************************)
(* C4.  A bare "+", "-" or "." followed immediately by whitespace or end   *)
(* of input makes the call fail, with no token emitted; for a lone sign    *)
(* followed by end of input the diagnostic has curr_guess = Sign and is    *)
(* located at the end-of-input character.                                  *)
(***************************************************************************)
IsBareSignOrDot(s) ==
    /\ Len(s) >= 2
    /\ IsSign(s[1]) \/ s[1] = 46
    /\ IsWhitespace(s[2]) \/ IsEndOfInput(s[2])

C4_BareSignOrDotFails ==
    (Returned /\ SingleCall /\ IsBareSignOrDot(source)) =>
        /\ StoppedOnError
        /\ frame.i = 1
        /\ result.tokens = << >>
        /\ (IsSign(source[1]) /\ IsEndOfInput(source[2])) =>
              /\ result.error.curr_guess = TOKEN_STATE_SIGN
              /\ result.error.curr_input = TOKEN_INPUT_EOF
              /\ result.error.curr_offset = 1

(***************************************************************************)
(* C5.  A quoted string with no matching closing delimiter before end of   *)
(* input makes the call fail at the end-of-input character, with the       *)
(* diagnostic's curr_guess the string state that was open.                 *)
(***************************************************************************)
IsUnterminatedString(s) ==
    /\ Len(s) >= 2
    /\ IsQuote(s[1])
    /\ EndsWithEndOfInput(s)
    /\ \A k \in 2..(Len(s) - 1) : s[k] # s[1]

C5_UnterminatedStringFails ==
    (Returned /\ SingleCall /\ IsUnterminatedString(source)) =>
        /\ StoppedOnError
        /\ frame.i = Len(source) - 1
        /\ result.error.curr_input = TOKEN_INPUT_EOF
        /\ result.error.curr_guess =
              (IF source[1] = 34 THEN TOKEN_STATE_DQUOTE_STRING
               ELSE TOKEN_STATE_SQUOTE_STRING)

(***************************************************************************)
(* C6.  For a string literal, the String token's text is exactly the       *)
(* characters between the opening delimiter and the first later occurrence *)
(* of the same delimiter, in order and unchanged, whatever they are        *)
(* (whitespace, digits, dots, colons, the other quote); the delimiters are *)
(* not part of the text.                                                   *)
(***************************************************************************)
\* s is one string literal followed by one whitespace or end-of-input
IsStringLiteralInput(s) ==
    /\ Len(s) >= 3
    /\ IsWhitespace(s[Len(s)]) \/ IsEndOfInput(s[Len(s)])
    /\ IsStringRun(TextOf(s))
    /\ \A k \in 1..(Len(s) - 1) : ~IsEndOfInput(s[k])
StringText(s) == SubSeq(s, 2, Len(s) - 2)

C6_StringTextPreserved ==
    (Returned /\ SingleCall /\ IsStringLiteralInput(source)) =>
        result.tokens =
            << [type |-> TOKEN_TYPE_STRING, data |-> StringText(source)] >>

(***************************************************************************)
(* C7.  Chunked equivalence: when a valid input has been fed in two or     *)
(* more consecutive chunks through successive calls on one TokenResult     *)
(* (final-chunk flag false on all but the last), result.tokens is the      *)
(* token sequence a single call on the whole input yields.                 *)
(***************************************************************************)
\* the whole source has been fed, in more than one call, and the last returned
ChunkedFeedComplete ==
    Returned /\ fed = Len(source) /\ size < Len(source)

C8_PartialTokenStateSurvives ==
    [][(Exhausted /\ MidToken /\ pc' = "loop") =>
          /\ frame'.curr_state = frame.next_state
          /\ frame'.sign = frame.sign]_vars

(***************************************************************************)
(* C9.  A call returns NeedMoreInput only when the caller passed           *)
(* is_final_chunk = false and the input was exhausted in the middle of a   *)
(* token; in particular a call with is_final_chunk = true never returns    *)
(* NeedMoreInput.                                                          *)
(***************************************************************************)
C9_NeedMoreInputOnlyMidToken ==
    (Returned /\ ret = NeedMoreInput) =>
        /\ ~end
        /\ Exhausted
        /\ MidToken

(***************************************************************************)
(* C10.  The returned status tells the three outcomes apart: a call that   *)
(* reaches End returns Done, a call that runs out of input returns         *)
(* NeedMoreInput, and a call that stops on an Error transition returns     *)
(* neither of these values.                                                *)
(***************************************************************************)
C10_StatusDistinguishesOutcomes ==
    /\ StoppedOnEnd => ret = Done
    /\ Exhausted => ret = NeedMoreInput
    /\ StoppedOnError => ret \notin {Done, NeedMoreInput}

(***************************************************************************)
(* C11.  Whenever a call fails on an Error transition, the diagnostic's    *)
(* curr_offset is the offset of the offending character in the consumed    *)
(* input, and curr_guess, curr_input and curr_input_val are the state      *)
(* before the transition, the offending character's input class and the    *)
(* raw character.                                                          *)
(***************************************************************************)
C11_DiagnosticDescribesOffender ==
    StoppedOnError =>
        /\ result.error.curr_offset = frame.i
        /\ result.error.curr_guess = frame.curr_state
        /\ result.error.curr_input = get_input(input[frame.i + 1])
        /\ result.error.curr_input_val = input[frame.i + 1]

(***************************************************************************)
(* C12.  A malformed-token error is fatal to the call: when the character  *)
(* about to be consumed has an Error transition, the call stops at it and  *)
(* consumes nothing after it (characters_processed counts up to and        *)
(* including it, and i stays on it), nothing is pushed to result.tokens,   *)
(* and the failure is reported (the call does not return NeedMoreInput,    *)
(* and the diagnostic names the character).                                *)
(***************************************************************************)
\* the transition the driver computes for the character it is about to consume
NextTransition ==
    Transition(frame.curr_state, get_input(input[frame.i + 1]))

C13_ErrorWrittenOnlyOnFailure ==
    [][result'.error # result.error =>
          (pc' = "returned" /\ frame'.next_state = TOKEN_STATE_ERROR)]_vars

\* a call ended on End, after an earlier call on the same result ran out of
\* input, and the diagnostic still holds what the construction left in it
C13_Witness ==
    /\ StoppedOnEnd
    /\ fed > size
    /\ frame.col_pos > 0
    /\ result.error \in IndeterminateErrors

\* the call returned because the loop ran out of characters
OutOfInput ==
    Returned /\ frame.next_state \notin {TOKEN_STATE_ERROR, TOKEN_STATE_END}

C15_NegativeLengthReported ==
    (Returned /\ size < 0) => ret \notin {NeedMoreInput, Done}

\* the decimal digits of 9223372036854775807, the largest 64-bit signed value
Int64MaxDigits == <<9, 2, 2, 3, 3, 7, 2, 0, 3, 6, 8, 5, 4, 7, 7, 5, 8, 0, 7>>

\* the digit string (no leading zero) denotes a value above the 64-bit range
ExceedsInt64Max(digits) ==
    /\ Len(digits) >= 1
    /\ All(digits, IsDigit)
    /\ digits[1] # 48
    /\ \/ Len(digits) > Len(Int64MaxDigits)
       \/ /\ Len(digits) = Len(Int64MaxDigits)
          /\ \E k \in 1..Len(digits) :
                /\ digits[k] - 48 > Int64MaxDigits[k]
                /\ \A j \in 1..(k - 1) : digits[j] - 48 = Int64MaxDigits[j]

\* an unsigned integer literal too large for 64 bits, then its terminator
IsOverflowingIntegerInput(s) ==
    /\ Len(s) >= 2
    /\ IsWhitespace(s[Len(s)]) \/ IsEndOfInput(s[Len(s)])
    /\ ExceedsInt64Max(SubSeq(s, 1, Len(s) - 1))

(***************************************************************************)
(* C16.  An integer literal whose value would exceed the positive 64-bit   *)
(* signed range makes the call fail with a diagnostic whose curr_guess is  *)
(* the Integer state, and no token is emitted for it.                      *)
(***************************************************************************)
C16_IntegerOverflowFails ==
    (Returned /\ SingleCall /\ IsOverflowingIntegerInput(source)) =>
        /\ StoppedOnError
        /\ result.error.curr_guess = TOKEN_STATE_INT
        /\ result.tokens = << >>

\* position k of s ends a logical line: "\n", or "\r" not followed by "\n"
IsLineEnding(s, k) ==
    \/ s[k] = 10
    \/ s[k] = 13 /\ (k = Len(s) \/ s[k + 1] # 10)

LineEndings(s) == Cardinality({k \in 1..Len(s) : IsLineEnding(s, k)})

\* the characters the current call has consumed
Consumed == SubSeq(input, 1, result.characters_processed)

(***************************************************************************)
(* C17.  After a call, lines_processed is the number of logical line       *)
(* endings in the characters the call consumed, where "\n", a "\r" not     *)
(* followed by "\n", and the pair "\r\n" each count as one.                *)
(***************************************************************************)
C17_LinesProcessedCountsLineEndings ==
    (Returned /\ size >= 0) => result.lines_processed = LineEndings(Consumed)

\* the lexical part of an iteration's outcome: everything but the line
\* counter, the column, the pending-CR flag and the diagnostic's coordinates
Lexical(o) ==
    << o.frame.curr_state, o.frame.curr_input, o.frame.next_state,
       o.frame.sign, o.frame.i, o.result.tokens, o.result.buffer,
       o.result.characters_processed, o.returned, o.ret >>

\* values tried for the line counter and the column counter
CounterValues == {0, 5}

\* the characters of the same input class as c
SameClass(c) == {c2 \in Alphabet : get_input(c2) = get_input(c)}

C19_DriverAdvancesAutomaton ==
    (/\ pc \in {"loop", "returned"}
     /\ frame.i >= 1
     /\ frame.next_state \notin {TOKEN_STATE_ERROR, TOKEN_STATE_END})
        => frame.curr_state = frame.next_state

(***************************************************************************)
(* The transition matrix on its own: every pair of a state and an input    *)
(* class is looked up once, as the loop looks it up, with the pair held in *)
(* frame.curr_state and frame.curr_input and the outcome in                *)
(* frame.next_state.                                                       *)
(***************************************************************************)
TableStates == 0..(TOKEN_STATE_SIZE - 1)
TableInputs == 0..(TOKEN_INPUT_SIZE - 1)

InitStates ==
    /\ source = << >>
    /\ fed = 0
    /\ input = << >>
    /\ size = 0
    /\ end = FALSE
    /\ frame \in {[FrameInit EXCEPT !.curr_state = s, !.curr_input = c] :
                     s \in TableStates, c \in TableInputs}
    /\ result \in {TokenResultInit(e) : e \in IndeterminateErrors}
    /\ pc = "lookup"
    /\ ret = 0

Lookup ==
    /\ pc = "lookup"
    /\ frame' = [frame EXCEPT
                    !.next_state = Transition(frame.curr_state, frame.curr_input)]
    /\ pc' = "looked_up"
    /\ UNCHANGED << source, fed, input, size, end, result, ret >>

NextStates == Lookup

SpecStates == InitStates /\ [][NextStates]_vars

LookedUp == pc = "looked_up"

\* the input class of the quote character that delimits string state s
OwnDelimiter(s) ==
    IF s = TOKEN_STATE_SQUOTE_STRING THEN TOKEN_INPUT_SINGLEQUOTE
                                     ELSE TOKEN_INPUT_DOUBLEQUOTE

(***************************************************************************)
(* C20.  In both string states the table follows the string rule:          *)
(* EndOfInput leads to Error, the state's own delimiter leads to Start,    *)
(* and every other input class, the other quote included, keeps the        *)
(* automaton in the same string state.                                     *)
(***************************************************************************)
C20_StringRule ==
    (/\ LookedUp
     /\ frame.curr_state \in {TOKEN_STATE_SQUOTE_STRING,
                              TOKEN_STATE_DQUOTE_STRING})
        => frame.next_state =
              (IF frame.curr_input = TOKEN_INPUT_EOF
               THEN TOKEN_STATE_ERROR
               ELSE IF frame.curr_input = OwnDelimiter(frame.curr_state)
               THEN TOKEN_STATE_NONE
               ELSE frame.curr_state)

\* the pair looked up is in the row of state s
InRow(s) == LookedUp /\ frame.curr_state = s

(***************************************************************************)
(* C21.  In state Sign the table maps Digit to Integer and Dot to DotSeen, *)
(* and every other input class (Whitespace and EndOfInput included) to     *)
(* Error.                                                                  *)
(***************************************************************************)
C21_SignRow ==
    InRow(TOKEN_STATE_SIGN) =>
        frame.next_state =
            CASE frame.curr_input = TOKEN_INPUT_NUMERIC -> TOKEN_STATE_INT
              [] frame.curr_input = TOKEN_INPUT_DOT -> TOKEN_STATE_DOT
              [] OTHER -> TOKEN_STATE_ERROR

(***************************************************************************)
(* C22.  In state Integer the table maps Digit to Integer, Dot to Real,    *)
(* Whitespace to Start and EndOfInput to End, and every other input class  *)
(* to Error.                                                               *)
(***************************************************************************)
C22_IntegerRow ==
    InRow(TOKEN_STATE_INT) =>
        frame.next_state =
            CASE frame.curr_input = TOKEN_INPUT_NUMERIC -> TOKEN_STATE_INT
              [] frame.curr_input = TOKEN_INPUT_DOT -> TOKEN_STATE_REAL
              [] frame.curr_input = TOKEN_INPUT_WHITESPACE -> TOKEN_STATE_NONE
              [] frame.curr_input = TOKEN_INPUT_EOF -> TOKEN_STATE_END
              [] OTHER -> TOKEN_STATE_ERROR

(***************************************************************************)
(* C23.  In state Identifier the table maps Letter, Digit and              *)
(* VisiblePrintableOther to Identifier, Whitespace to Start and EndOfInput *)
(* to End, and every remaining class (Sign and Dot included) to Error.     *)
(***************************************************************************)
C23_IdentifierRow ==
    InRow(TOKEN_STATE_ID) =>
        frame.next_state =
            CASE frame.curr_input \in {TOKEN_INPUT_ALPHABET, TOKEN_INPUT_NUMERIC,
                                       TOKEN_INPUT_IDCHAR} -> TOKEN_STATE_ID
              [] frame.curr_input = TOKEN_INPUT_WHITESPACE -> TOKEN_STATE_NONE
              [] frame.curr_input = TOKEN_INPUT_EOF -> TOKEN_STATE_END
              [] OTHER -> TOKEN_STATE_ERROR

(***************************************************************************)
(* C24.  In state DebugCommand the table maps Letter and Digit to          *)
(* DebugCommand, Whitespace to Start and EndOfInput to End, and every      *)
(* other input class to Error.                                             *)
(***************************************************************************)
C24_DebugCommandRow ==
    InRow(TOKEN_STATE_DEBUG) =>
        frame.next_state =
            CASE frame.curr_input \in {TOKEN_INPUT_ALPHABET,
                                       TOKEN_INPUT_NUMERIC} -> TOKEN_STATE_DEBUG
              [] frame.curr_input = TOKEN_INPUT_WHITESPACE -> TOKEN_STATE_NONE
              [] frame.curr_input = TOKEN_INPUT_EOF -> TOKEN_STATE_END
              [] OTHER -> TOKEN_STATE_ERROR

C26_DotSeenRow ==
    InRow(TOKEN_STATE_DOT) =>
        frame.next_state =
            (IF frame.curr_input = TOKEN_INPUT_NUMERIC THEN TOKEN_STATE_REAL
                                                       ELSE TOKEN_STATE_ERROR)

\* EndOfInput was looked up in the DotSeen state and gave Error
C26_Witness ==
    /\ InRow(TOKEN_STATE_DOT)
    /\ frame.curr_input = TOKEN_INPUT_EOF
    /\ frame.next_state = TOKEN_STATE_ERROR

(***************************************************************************)
(* C27.  In state Real the table maps Digit to Real, Whitespace to Start   *)
(* and EndOfInput to End, and every other input class (Dot included) to    *)
(* Error.                                                                  *)
(***************************************************************************)
C27_RealRow ==
    InRow(TOKEN_STATE_REAL) =>
        frame.next_state =
            CASE frame.curr_input = TOKEN_INPUT_NUMERIC -> TOKEN_STATE_REAL
              [] frame.curr_input = TOKEN_INPUT_WHITESPACE -> TOKEN_STATE_NONE
              [] frame.curr_input = TOKEN_INPUT_EOF -> TOKEN_STATE_END
              [] OTHER -> TOKEN_STATE_ERROR

\* a dot was looked up in the Real state and gave Error
C27_Witness ==
    /\ InRow(TOKEN_STATE_REAL)
    /\ frame.curr_input = TOKEN_INPUT_DOT
    /\ frame.next_state = TOKEN_STATE_ERROR

\* the in-progress states whose token the end of input completes
CompletedByEnd ==
    {TOKEN_STATE_INT, TOKEN_STATE_REAL, TOKEN_STATE_ID, TOKEN_STATE_DEBUG}

(***************************************************************************)
(* C28.  When the next state is End while a token is in progress (the      *)
(* state computed for the previous character is the state of an integer,   *)
(* a real, an identifier or a debug command), the call first pushes that   *)
(* token and then returns Done, leaving i on the EndOfInput character.     *)
(***************************************************************************)
C28_EndPushesTokenInProgress ==
    [][(/\ pc = "loop"
        /\ frame.i < size
        /\ frame.next_state \in CompletedByEnd
        /\ NextTransition = TOKEN_STATE_END) =>
          /\ pc' = "returned"
          /\ ret' = Done
          /\ frame'.i = frame.i
          /\ Len(result'.tokens) = Len(result.tokens) + 1]_vars

(***************************************************************************)
(* get_input on its own: every code point of a byte, and the end-of-input  *)
(* sentinel, is classified once, with the code point held in input and the *)
(* class in frame.curr_input.                                              *)
(***************************************************************************)
CodePoints == 0..255 \cup {EOF}

InitInputs ==
    /\ source = << >>
    /\ fed = 0
    /\ input \in {<< c >> : c \in CodePoints}
    /\ size = 1
    /\ end = FALSE
    /\ frame = FrameInit
    /\ result \in {TokenResultInit(e) : e \in IndeterminateErrors}
    /\ pc = "classify"
    /\ ret = 0

Classify ==
    /\ pc = "classify"
    /\ frame' = [frame EXCEPT !.curr_input = get_input(input[1])]
    /\ pc' = "classified"
    /\ UNCHANGED << source, fed, input, size, end, result, ret >>

NextInputs == Classify

SpecInputs == InitInputs /\ [][NextInputs]_vars

Classified == pc = "classified"

\* the input class the priority-ordered rules give to code point c
ClassOf(c) ==
    CASE c = EOF \/ c = 0 -> TOKEN_INPUT_EOF
      [] c \in {32, 9, 10, 13} -> TOKEN_INPUT_WHITESPACE
      [] c = 46 -> TOKEN_INPUT_DOT
      [] c = 58 -> TOKEN_INPUT_COLON
      [] c = 92 -> TOKEN_INPUT_BACKSLASH
      [] c = 95 \/ c \in 65..90 \/ c \in 97..122 -> TOKEN_INPUT_ALPHABET
      [] c \in {43, 45} -> TOKEN_INPUT_SIGN
      [] c = 34 -> TOKEN_INPUT_DOUBLEQUOTE
      [] c = 39 -> TOKEN_INPUT_SINGLEQUOTE
      [] c \in 48..57 -> TOKEN_INPUT_NUMERIC
      [] OTHER -> IF c \in 33..126 \/ c >= 161 THEN TOKEN_INPUT_IDCHAR
                                               ELSE TOKEN_INPUT_OTHER

(***************************************************************************)
(* C29.  get_input is total and agrees with the priority-ordered rules for *)
(* every code point 0..255 and the end-of-input sentinel: it gives one of  *)
(* the twelve input classes, and the one the rules name.                   *)
(***************************************************************************)
C29_GetInputAgreesWithRules ==
    Classified =>
        /\ frame.curr_input \in TableInputs
        /\ frame.curr_input = ClassOf(input[1])

\* the first code point above the ASCII range that counts as visible
C29_Witness ==
    /\ Classified
    /\ input = << 161 >>
    /\ frame.curr_input = TOKEN_INPUT_IDCHAR

\* the position of the last line-ending character before position k, or 0
LastLineEndingBefore(s, k) ==
    LET ends == {j \in 1..(k - 1) : s[j] \in {10, 13}}
    IN IF ends = {} THEN 0 ELSE CHOOSE j \in ends : \A m \in ends : m <= j

\* the number of characters before position k on its line
CharactersBeforeOnLine(s, k) == k - 1 - LastLineEndingBefore(s, k)

(***************************************************************************)
(* C30.  The diagnostic's column is 0-based: when a call fails on a        *)
(* character that has k characters before it on its line, the reported     *)
(* col_pos is k (0 for an offending first character of a line), and        *)
(* line_pos is the number of line endings consumed before the character.   *)
(***************************************************************************)
C30_DiagnosticColumnIsZeroBased ==
    StoppedOnError =>
        /\ result.error.col_pos = CharactersBeforeOnLine(input, frame.i + 1)
        /\ result.error.line_pos = LineEndings(SubSeq(input, 1, frame.i))

(***************************************************************************)
(* C31.  When a character that is neither "\r" nor "\n" is consumed while  *)
(* the pending-CR flag is armed, the line counter is incremented once, the *)
(* flag is disarmed, and the column is reset and then incremented for the  *)
(* character, so the column after it is 1.                                 *)
(***************************************************************************)
C31_CharacterAfterPendingCR ==
    [][(/\ pc = "loop"
        /\ frame.i < size
        /\ frame.line_ending_check
        /\ input[frame.i + 1] \notin {10, 13}) =>
          /\ result'.lines_processed = result.lines_processed + 1
          /\ ~frame'.line_ending_check
          /\ frame'.col_pos = 1]_vars

(***************************************************************************)
(* build_int on its own.  token.data.i, a 64-bit value, is held as its     *)
(* decimal digits (most significant first, no leading zero) and a sign, so *)
(* that no arithmetic on 64-bit numbers is needed: multiplying by ten and  *)
(* adding a digit appends the digit.  The activation is held in frame      *)
(* (token, c) and the return value in ret.                                 *)
(***************************************************************************)
RECURSIVE Normalize(_)
Normalize(digits) ==
    IF Len(digits) > 1 /\ digits[1] = 0 THEN Normalize(Tail(digits))
                                        ELSE digits

\* a < b, for two digit strings without leading zeros
DigitsLess(a, b) ==
    \/ Len(a) < Len(b)
    \/ /\ Len(a) = Len(b)
       /\ \E k \in 1..Len(a) :
             /\ a[k] < b[k]
             /\ \A j \in 1..(k - 1) : a[j] = b[j]

\* INT64_MAX - 9 = 9223372036854775798
Int64MaxMinus9Digits ==
    <<9, 2, 2, 3, 3, 7, 2, 0, 3, 6, 8, 5, 4, 7, 7, 5, 7, 9, 8>>

NonNegative(digits) == [negative |-> FALSE, digits |-> digits]

\* 10 * v + d for a non-negative v, as a mathematical integer
TimesTenPlus(digits, d) == Normalize(Append(digits, d))

\* what token.data.i may hold after a signed overflow: any value at all,
\* here a negative one, zero, and the two ends of the positive range
OverflowedValues ==
    { [negative |-> TRUE, digits |-> <<8, 4>>],
      NonNegative(<<0>>),
      NonNegative(<<4>>),
      NonNegative(Int64MaxDigits) }

\* the accumulated values tried: small ones and the ones around INT64_MAX / 10
\* and INT64_MAX - 9
AccumulatedValues ==
    { <<0>>, <<1>>, <<9>>, <<1, 2>>,
      \* INT64_MAX / 10 and its neighbours
      <<9, 2, 2, 3, 3, 7, 2, 0, 3, 6, 8, 5, 4, 7, 7, 5, 7, 9>>,
      <<9, 2, 2, 3, 3, 7, 2, 0, 3, 6, 8, 5, 4, 7, 7, 5, 8, 0>>,
      <<9, 2, 2, 3, 3, 7, 2, 0, 3, 6, 8, 5, 4, 7, 7, 5, 8, 1>>,
      \* 10^18
      <<1, 0, 0, 0, 0, 0, 0, 0, 0, 0, 0, 0, 0, 0, 0, 0, 0, 0, 0>>,
      \* INT64_MAX - 10, INT64_MAX - 9, INT64_MAX - 1, INT64_MAX
      <<9, 2, 2, 3, 3, 7, 2, 0, 3, 6, 8, 5, 4, 7, 7, 5, 7, 9, 7>>,
      Int64MaxMinus9Digits,
      <<9, 2, 2, 3, 3, 7, 2, 0, 3, 6, 8, 5, 4, 7, 7, 5, 8, 0, 6>>,
      Int64MaxDigits }

\* the outcomes of build_int(token, c): the token afterwards and the value
\* returned.  An overflow of the multiplication or of the addition is
\* undefined, so then token.data.i may be anything.
build_int(token, c) ==
    IF /\ ~token.data.i.negative
       /\ ~DigitsLess(token.data.i.digits, Int64MaxMinus9Digits)
    THEN {[token |-> token, ret |-> 0 - 1]}
    ELSE LET sum == TimesTenPlus(token.data.i.digits, c - 48)
         IN IF DigitsLess(Int64MaxDigits, sum)
            THEN {[token |-> [token EXCEPT !.data.i = v], ret |-> 0] :
                     v \in OverflowedValues}
            ELSE {[token |-> [token EXCEPT !.data.i = NonNegative(sum)],
                   ret |-> 0]}

InitBuildInt ==
    /\ source = << >>
    /\ fed = 0
    /\ input = << >>
    /\ size = 0
    /\ end = FALSE
    /\ frame \in {[token |-> [type |-> TOKEN_TYPE_INT,
                              data |-> [i |-> NonNegative(v)]],
                   c |-> c] : v \in AccumulatedValues, c \in 48..57}
    /\ result \in {TokenResultInit(e) : e \in IndeterminateErrors}
    /\ pc = "build_int"
    /\ ret = 0

BuildInt ==
    /\ pc = "build_int"
    /\ \E o \in build_int(frame.token, frame.c) :
          /\ frame' = [frame EXCEPT !.token = o.token]
          /\ ret' = o.ret
    /\ pc' = "built"
    /\ UNCHANGED << source, fed, input, size, end, result >>

NextBuildInt == BuildInt

SpecBuildInt == InitBuildInt /\ [][NextBuildInt]_vars

(***************************************************************************)
(* C32.  build_int never wraps around: for an accumulated value v in       *)
(* 0..INT64_MAX and a digit d, it either returns a negative value and      *)
(* leaves the token's value unchanged, which it does only when 10*v + d    *)
(* would exceed INT64_MAX, or returns 0 with the value equal to 10*v + d,  *)
(* which does not exceed INT64_MAX.                                        *)
(***************************************************************************)
C32_BuildIntNeverWraps ==
    [][pc = "build_int" =>
          LET sum == TimesTenPlus(frame.token.data.i.digits, frame.c - 48)
          IN \/ /\ ret' < 0
                /\ frame'.token = frame.token
                /\ DigitsLess(Int64MaxDigits, sum)
             \/ /\ ret' = 0
                /\ ~DigitsLess(Int64MaxDigits, sum)
                /\ frame'.token.data.i = NonNegative(sum)]_vars

(***************************************************************************)
(* The text buffer on its own.  A std::vector<char> is its elements, its   *)
(* capacity and the identity of the storage block that holds them; a       *)
(* pointer to an element is the block and the element's position (from 1). *)
(* When the vector grows past its capacity the elements are copied to a    *)
(* new block, and pointers into the old block no longer designate them.    *)
(***************************************************************************)
ReservedCapacity == 512
MaxCalls == 4
BufferChars == {97, 98}

EmptyVector == [data |-> << >>, capacity |-> 0, block |-> 0]

\* the capacities a full vector of capacity cap may grow to (the factor is
\* the library's choice: 2 or 1.5)
GrownCapacities(cap) ==
    IF cap = 0 THEN {1} ELSE {2 * cap, cap + (cap + 1) \div 2}

\* buffer.reserve(n)
reserve(buffer, n) ==
    IF n > buffer.capacity
    THEN [buffer EXCEPT !.capacity = n, !.block = @ + 1]
    ELSE buffer

\* buffer.push_back(c), growing to capacity grown if the vector is full
push_back(buffer, c, grown) ==
    IF Len(buffer.data) < buffer.capacity
    THEN [buffer EXCEPT !.data = Append(@, c)]
    ELSE [data |-> Append(buffer.data, c), capacity |-> grown,
          block |-> buffer.block + 1]

\* &buffer.back()
AddressOfBack(buffer) == [block |-> buffer.block, offset |-> Len(buffer.data)]

token_buffer_new(buffer, grown) ==
    LET reserved == IF buffer.data = << >>
                    THEN reserve(buffer, ReservedCapacity)
                    ELSE buffer
        pushed == push_back(reserved, 0, grown)
    IN [buffer |-> pushed, ret |-> AddressOfBack(pushed)]

token_buffer_insert(buffer, c, grown) ==
    [buffer |-> push_back(buffer, c, grown), ret |-> 0]

token_buffer_end(buffer, grown) ==
    LET pushed == push_back(buffer, 0, grown)
    IN [buffer |-> pushed, ret |-> AddressOfBack(pushed)]

\* the buffer, and the pointers returned so far, after k texts of one
\* character have been stored with new, insert, end: k times the bytes
\* 0, "a", 0 in the block that the first token_buffer_new reserved, and the
\* addresses of the 2k null bytes
Prefilled(k) ==
    IF k = 0 THEN [buffer |-> EmptyVector, refs |-> << >>]
    ELSE LET block == reserve(EmptyVector, ReservedCapacity).block
         IN [buffer |-> [data |-> [j \in 1..(3 * k) |->
                                      IF j % 3 = 2 THEN 97 ELSE 0],
                         capacity |-> ReservedCapacity,
                         block |-> block],
             refs |-> [m \in 1..(2 * k) |->
                          [block |-> block,
                           offset |-> IF m % 2 = 1 THEN 3 * ((m + 1) \div 2) - 2
                                                   ELSE 3 * (m \div 2)]]]

\* the numbers of texts already stored when the calls looked at begin: none,
\* and enough to leave two free bytes of the reserved capacity
PrefilledTexts == {0, (ReservedCapacity - 2) \div 3}

NoRef == [block |-> 0 - 1, offset |-> 0]

(***************************************************************************)
(* The caller of the buffer functions: frame.buffer is the vector,         *)
(* frame.refs the pointers returned so far, frame.ref the pointer that the *)
(* latest token_buffer_new returned, frame.inserted the characters passed  *)
(* to token_buffer_insert since, and frame.phase whether that text is      *)
(* still open, was closed by token_buffer_end, or does not exist.          *)
(***************************************************************************)
InitBuffer ==
    /\ source = << >>
    /\ fed = 0
    /\ input = << >>
    /\ size = 0
    /\ end = FALSE
    /\ frame \in {[buffer |-> Prefilled(k).buffer, refs |-> Prefilled(k).refs,
                   ref |-> NoRef, inserted |-> << >>, phase |-> "none",
                   calls |-> 0] : k \in PrefilledTexts}
    /\ result \in {TokenResultInit(e) : e \in IndeterminateErrors}
    /\ pc = "buffer"
    /\ ret = 0

BufferNew ==
    /\ pc = "buffer"
    /\ frame.calls < MaxCalls
    /\ \E grown \in GrownCapacities(frame.buffer.capacity) :
          LET o == token_buffer_new(frame.buffer, grown)
          IN frame' = [buffer |-> o.buffer, refs |-> Append(frame.refs, o.ret),
                       ref |-> o.ret, inserted |-> << >>, phase |-> "open",
                       calls |-> frame.calls + 1]
    /\ UNCHANGED << source, fed, input, size, end, result, pc, ret >>

BufferInsert ==
    /\ pc = "buffer"
    /\ frame.calls < MaxCalls
    /\ \E c \in BufferChars, grown \in GrownCapacities(frame.buffer.capacity) :
          LET o == token_buffer_insert(frame.buffer, c, grown)
          IN /\ frame' = [frame EXCEPT
                             !.buffer = o.buffer,
                             !.inserted = IF frame.phase = "open"
                                          THEN Append(@, c) ELSE @,
                             !.phase = IF frame.phase = "open"
                                       THEN "open" ELSE "none",
                             !.calls = @ + 1]
             /\ ret' = o.ret
    /\ UNCHANGED << source, fed, input, size, end, result, pc >>

BufferEnd ==
    /\ pc = "buffer"
    /\ frame.calls < MaxCalls
    /\ \E grown \in GrownCapacities(frame.buffer.capacity) :
          LET o == token_buffer_end(frame.buffer, grown)
          IN frame' = [frame EXCEPT
                          !.buffer = o.buffer,
                          !.refs = Append(@, o.ret),
                          !.phase = IF frame.phase = "open"
                                    THEN "closed" ELSE "none",
                          !.calls = @ + 1]
    /\ UNCHANGED << source, fed, input, size, end, result, pc, ret >>

NextBuffer == BufferNew \/ BufferInsert \/ BufferEnd

SpecBuffer == InitBuffer /\ [][NextBuffer]_vars

\* the pointer designates an element of the vector as it is now
Designates(p) ==
    /\ p.block = frame.buffer.block
    /\ p.offset \in 1..Len(frame.buffer.data)

(***************************************************************************)
(* C33.  Text stored in the buffer never moves: after any sequence of      *)
(* token_buffer_new, token_buffer_insert and token_buffer_end calls, every *)
(* pointer returned by an earlier call still designates the same byte (the *)
(* null byte it was returned for), also after the buffer has grown past    *)
(* its reserved capacity.  Stated for a buffer that token_buffer_new has   *)
(* reserved the capacity of.                                               *)
(***************************************************************************)
C33_ReferencesStayValid ==
    (pc = "buffer" /\ frame.buffer.capacity >= ReservedCapacity) =>
        \A k \in 1..Len(frame.refs) :
            /\ Designates(frame.refs[k])
            /\ frame.buffer.data[frame.refs[k].offset] = 0

\* the characters from position k of data up to the first null byte
RECURSIVE TextFrom(_, _)
TextFrom(data, k) ==
    IF k > Len(data) \/ data[k] = 0 THEN << >>
    ELSE << data[k] >> \o TextFrom(data, k + 1)

(***************************************************************************)
(* C34.  The pointer returned by token_buffer_new designates the first     *)
(* byte of the text that the following token_buffer_insert calls store:    *)
(* after token_buffer_new, n inserts of c1..cn and token_buffer_end,       *)
(* reading from the pointer up to the first null byte yields c1..cn.       *)
(* Stated for a pointer that the growth of the buffer has not invalidated. *)
(***************************************************************************)
C34_NewReturnsStartOfText ==
    (pc = "buffer" /\ frame.phase = "closed" /\ Designates(frame.ref)) =>
        TextFrom(frame.buffer.data, frame.ref.offset) = frame.inserted

====
